---- MODULE Spec2Model ----
(***************************************************************************)
(* The environment-change loop of main_code.ipynb: the archive `saved`,   *)
(* save_elite_solutions, select_subset, the seed population of every      *)
(* non-initial step, crowding_distance, and the driver loop over          *)
(* time_steps.                                                             *)
(*                                                                         *)
(* A decision vector is identified by where it came from: <<k, i>> is row *)
(* i of res.X at loop index k.  The optimizer (pymoo's minimize), the     *)
(* problem's objective function and the non-dominated sort are external:  *)
(* the size of res.X, the objective values and the size of the front are  *)
(* drawn from bounded sets.                                                *)
(***************************************************************************)
EXTENDS Integers, Sequences, FiniteSets

VARIABLES
    pc,             \* position of the driver in the loop body
    idx,            \* loop index of `for idx, t_unit in enumerate(time_steps)`
    t,              \* <<numerator, denominator>> of the current time value
    pop_cfg,        \* the configured population_size
    saved,          \* the archive (a Python list, so a sequence)
    res,            \* res.X of the last minimize call
    sampling,       \* "none" | "LHS" | "array": what the optimizer samples from
    seed,           \* number of rows of each part of full_sampling
    n_opt,          \* minimize calls completed in this run
    n_upd,          \* save_elite_solutions calls completed in this run
    last_update,    \* sizes seen by the last save_elite_solutions call
    error,          \* the exception that ended the run, or "none"
    sel,            \* select_subset as a function: input, argsort, output
    cd              \* crowding_distance as a function: input, argsorts, output

vars == <<pc, idx, t, pop_cfg, saved, res, sampling, seed, n_opt, n_upd,
          last_update, error, sel, cd>>

runVars == <<pc, idx, t, pop_cfg, saved, res, sampling, seed, n_opt, n_upd,
             last_update, error>>

(***************************************************************************)
(* Driver configuration.                                                   *)
(***************************************************************************)
frequency_of_change == 10
severity == 10
num_changes == 9
population_size == 100
\* The archive capacity and the per-step cap are 1000 and 50 in the driver;
\* the model runs the same code with small capacities.
max_save == 2
save_each_prob == 1
\* range(0, 201, 10)
RangeStop == 201
RangeStep == 10
\* Sizes written into the non-initial branch of the loop body.
n_target == 50
select_max == 100
n_elite == 40
n_transfer == 40
n_random == 20
\* Columns: the problem's n_var, TCA(dim=10), np.random.uniform(xl, xu, (., 10)).
n_var == 10
tca_dim == 10
sample_cols == 10

\* res.X holds between 1 and MaxRes rows.
MaxRes == 2

Min(a, b) == IF a <= b THEN a ELSE b

\* [floor(i / frequency_of_change) / severity for i in range(0, 201, 10)]
time_steps ==
    [k \in 1..(((RangeStop - 1) \div RangeStep) + 1) |->
        <<((k - 1) * RangeStep) \div frequency_of_change, severity>>]

NumSteps == Len(time_steps)

(***************************************************************************)
(* np.random.choice(n, size=k, replace=False): k distinct indices in any  *)
(* order.                                                                  *)
(***************************************************************************)
RandomChoice(n, k) ==
    {s \in [1..k -> 1..n] : \A i, j \in 1..k : i # j => s[i] # s[j]}

Pick(list, indices) == [i \in 1..Len(indices) |-> list[indices[i]]]

(***************************************************************************)
(* save_elite_solutions(problem, var, obj, max_save, solutions,           *)
(* max_per_problem).  The two random draws are the parameters ri1 and ri2; *)
(* a draw that the code does not make is passed as <<>>.                   *)
(***************************************************************************)
\* Variant: the per-step cap is not applied.
current_elites_uncapped(var, max_per_problem, ri1) == var

current_elites(var, max_per_problem, ri1) ==
    IF Len(var) > max_per_problem THEN Pick(var, ri1) ELSE var

EliteDraws(var, max_per_problem) ==
    IF Len(var) > max_per_problem
    THEN RandomChoice(Len(var), max_per_problem)
    ELSE {<<>>}

ArchiveDraws(n_combined, cap) ==
    IF n_combined > cap THEN RandomChoice(n_combined, cap) ELSE {<<>>}

\* Variant: the combined list is never cut to the capacity.
save_elite_solutions_unbounded(var, cap, solutions, max_per_problem, ri1, ri2) ==
    solutions \o current_elites(var, max_per_problem, ri1)

\* Variant: the new vectors are put in front of the archive.
save_elite_solutions_prepend(var, cap, solutions, max_per_problem, ri1, ri2) ==
    LET combined == current_elites(var, max_per_problem, ri1) \o solutions
    IN  IF Len(combined) > cap THEN Pick(combined, ri2) ELSE combined

\* Variant: the archive is left as it was.
save_elite_solutions_dropped(var, cap, solutions, max_per_problem, ri1, ri2) ==
    solutions

save_elite_solutions(var, cap, solutions, max_per_problem, ri1, ri2) ==
    LET combined == solutions \o current_elites(var, max_per_problem, ri1)
    IN  IF Len(combined) > cap THEN Pick(combined, ri2) ELSE combined

(***************************************************************************)
(* Length of what select_subset returns: np.array([]) for an empty        *)
(* archive, the archive itself up to max_elements, else the first         *)
(* max_elements indices of the argsort.                                    *)
(***************************************************************************)
select_subset_size(n, max_elements) ==
    IF n = 0 THEN 0
    ELSE IF n <= max_elements THEN n
    ELSE max_elements

(***************************************************************************)
(* The non-initial branch of the loop body up to full_sampling, on sizes. *)
(* n is len(saved), f the size of the non-dominated front of the archive  *)
(* under the current problem, pop the configured population_size.          *)
(*   - an empty archive: select_subset returns an array of shape (0,),    *)
(*     and np.vstack((Xs, Xt)) in fit_transform raises ValueError, the     *)
(*     column counts 0 and 10 differing;                                   *)
(*   - transferred_population has one row per selected archive member;     *)
(*   - n_needed < 0: np.random.uniform raises ValueError (negative         *)
(*     dimensions are not allowed).                                        *)
(* seed.full is len(full_sampling), -1 while it is not built.              *)
(***************************************************************************)
NoSeed == [transferred |-> 0, random |-> 0, elite |-> 0, n_needed |-> 0,
           full |-> -1]

\* Rows of final_initial_population.
Components(s) == s.transferred + s.random + s.elite

\* Columns of select_subset's result once np.vstack has made it 2-D:
\* np.array([]) becomes shape (1, 0), an archive of vectors keeps n_var.
source_cols(n) == IF n = 0 THEN 0 ELSE n_var

\* Columns of Z[:ns, :]: W holds the leading tca_dim eigenvectors of a matrix
\* of order ns + nt.
transferred_cols(ns) == Min(tca_dim, ns + n_target)

seed_population(n, f, pop) ==
    LET ns == select_subset_size(n, select_max)
        n_tr == Min(n_transfer, ns)
        n_el == Min(n_elite, f)
        needed == pop - (n_tr + n_random + n_el)
        parts == [transferred |-> n_tr, random |-> n_random, elite |-> n_el,
                  n_needed |-> needed, full |-> -1]
    IN  IF source_cols(n) # sample_cols
        THEN [ok |-> FALSE, err |-> "ValueError: vstack", seed |-> NoSeed]
        ELSE IF transferred_cols(ns) # sample_cols \/ n_var # sample_cols
        THEN [ok |-> FALSE, err |-> "ValueError: vstack", seed |-> NoSeed]
        ELSE IF needed < 0
        THEN [ok |-> FALSE, err |-> "ValueError: negative dimensions",
              seed |-> parts]
        ELSE [ok |-> TRUE, err |-> "none",
              seed |-> [parts EXCEPT !.full = Components(parts) + needed]]

(***************************************************************************)
(* The driver loop.                                                        *)
(***************************************************************************)
NoUpdate == [new |-> 0, old |-> 0, combined |-> 0, step |-> -1]
NoSel == [pc |-> "off"]
NoCd == [pc |-> "off"]

InitRun ==
    /\ pc = "start"
    /\ idx = 0
    /\ t = time_steps[1]
    /\ pop_cfg = population_size
    /\ saved = <<>>
    /\ res = <<>>
    /\ sampling = "none"
    /\ seed = NoSeed
    /\ n_opt = 0
    /\ n_upd = 0
    /\ last_update = NoUpdate
    /\ error = "none"
    /\ sel = NoSel
    /\ cd = NoCd

\* saved = []; the first iteration of the loop begins.
StartRun ==
    /\ pc = "start"
    /\ saved' = <<>>
    /\ idx' = 0
    /\ t' = time_steps[1]
    /\ pc' = "sample"
    /\ UNCHANGED <<pop_cfg, res, sampling, seed, n_opt, n_upd, last_update,
                   error, sel, cd>>

\* idx == 0: NSGA2(sampling=LHS()).
SampleLHS ==
    /\ pc = "sample"
    /\ idx = 0
    /\ sampling' = "LHS"
    /\ seed' = NoSeed
    /\ pc' = "optimize"
    /\ UNCHANGED <<idx, t, pop_cfg, saved, res, n_opt, n_upd, last_update,
                   error, sel, cd>>

\* idx > 0: transfer, elite extraction, full_sampling, get_algorithm.
BuildSeed ==
    /\ pc = "sample"
    /\ idx > 0
    /\ \E f \in (IF saved = <<>> THEN {0} ELSE 1..Len(saved)) :
          LET b == seed_population(Len(saved), f, pop_cfg)
          IN  IF b.ok
              THEN /\ sampling' = "array"
                   /\ seed' = b.seed
                   /\ pc' = "optimize"
                   /\ error' = error
              ELSE /\ sampling' = sampling
                   /\ seed' = b.seed
                   /\ pc' = "aborted"
                   /\ error' = b.err
    /\ UNCHANGED <<idx, t, pop_cfg, saved, res, n_opt, n_upd, last_update,
                   sel, cd>>

\* res = minimize(problem, algorithm, termination): res.X has r rows.
Optimize ==
    /\ pc = "optimize"
    /\ \E r \in 1..MaxRes : res' = [i \in 1..r |-> <<idx, i>>]
    /\ n_opt' = n_opt + 1
    /\ pc' = "save"
    /\ UNCHANGED <<idx, t, pop_cfg, saved, sampling, seed, n_upd, last_update,
                   error, sel, cd>>

\* save_elite_solutions(problem, res.X, res.F, max_save, saved, save_each_prob)
SaveElite ==
    /\ pc = "save"
    /\ \E ri1 \in EliteDraws(res, save_each_prob) :
          LET elites == current_elites(res, save_each_prob, ri1)
          IN  \E ri2 \in ArchiveDraws(Len(saved) + Len(elites), max_save) :
                 /\ saved' = save_elite_solutions(res, max_save, saved,
                                                  save_each_prob, ri1, ri2)
                 /\ last_update' = [new |-> Len(res), old |-> Len(saved),
                                    combined |-> Len(saved) + Len(elites),
                                    step |-> idx]
    /\ n_upd' = n_upd + 1
    /\ pc' = "next"
    /\ UNCHANGED <<idx, t, pop_cfg, res, sampling, seed, n_opt, error, sel, cd>>

\* fronts_this_run.append(res.F); the loop takes the next time step or ends.
Advance ==
    /\ pc = "next"
    /\ IF idx + 1 < NumSteps
       THEN /\ idx' = idx + 1
            /\ t' = time_steps[idx + 2]
            /\ pc' = "sample"
       ELSE /\ idx' = idx
            /\ t' = t
            /\ pc' = "done"
    /\ UNCHANGED <<pop_cfg, saved, res, sampling, seed, n_opt, n_upd,
                   last_update, error, sel, cd>>

Next ==
    \/ StartRun
    \/ SampleLHS
    \/ BuildSeed
    \/ Optimize
    \/ SaveElite
    \/ Advance

Spec == InitRun /\ [][Next]_vars

(***************************************************************************)
(* The first MaxEnvSteps time steps of the run.                            *)
(***************************************************************************)
MaxEnvSteps == 4

AdvanceWithin ==
    /\ idx + 1 < MaxEnvSteps
    /\ Advance

NextPrefix ==
    \/ StartRun
    \/ SampleLHS
    \/ BuildSeed
    \/ Optimize
    \/ SaveElite
    \/ AdvanceWithin

SpecPrefix == InitRun /\ [][NextPrefix]_vars

(***************************************************************************)
(* The same steps when the linear algebra of TCA.fit_transform may raise: *)
(* np.linalg.inv and np.linalg.eigh raise LinAlgError, and nothing in      *)
(* transfer_solutions or in the loop body catches it.                      *)
(***************************************************************************)
TransferRaises ==
    /\ pc = "sample"
    /\ idx > 0
    /\ saved # <<>>
    /\ error' = "LinAlgError"
    /\ pc' = "aborted"
    /\ UNCHANGED <<idx, t, pop_cfg, saved, res, sampling, seed, n_opt, n_upd,
                   last_update, sel, cd>>

NextFault ==
    \/ StartRun
    \/ SampleLHS
    \/ BuildSeed
    \/ TransferRaises
    \/ Optimize
    \/ SaveElite
    \/ AdvanceWithin

SpecFault == InitRun /\ [][NextFault]_vars

(***************************************************************************)
(* The seed construction as a function of the archive and of the          *)
(* configuration: a non-initial step entered with an archive of any       *)
(* length up to MaxArchLen and a population_size within PopDelta of the    *)
(* driver's.                                                               *)
(***************************************************************************)
MaxArchLen == 120
PopDelta == 2

ArbitraryArchive(n) == [i \in 1..n |-> <<-1, i>>]

InitSeed ==
    /\ pc = "sample"
    /\ idx \in 1..(NumSteps - 1)
    /\ t = time_steps[idx + 1]
    /\ pop_cfg \in (population_size - PopDelta)..(population_size + PopDelta)
    /\ \E n \in 0..MaxArchLen : saved = ArbitraryArchive(n)
    /\ res = <<>>
    /\ sampling = "none"
    /\ seed = NoSeed
    /\ n_opt = idx
    /\ n_upd = idx
    /\ last_update = NoUpdate
    /\ error = "none"
    /\ sel = NoSel
    /\ cd = NoCd

NextSeed == BuildSeed

SpecSeed == InitSeed /\ [][NextSeed]_vars

(***************************************************************************)
(* select_subset(saved, problem, max_elements) as a function.  F_saved is *)
(* what problem._evaluate gives for each archive member, argsort the      *)
(* result of np.argsort on the objective sums: any ordering of the        *)
(* indices by non-decreasing sum, ties in any order.                      *)
(***************************************************************************)
n_obj == 2
MaxSelLen == 3
SelObjMax == 1

RECURSIVE SumSeq(_)
SumSeq(v) == IF v = <<>> THEN 0 ELSE Head(v) + SumSeq(Tail(v))

\* np.sum(F_saved, axis=1)
RowSums(F) == [i \in 1..Len(F) |-> SumSeq(F[i])]

IndexOrders(n) ==
    {p \in [1..n -> 1..n] : \A i, j \in 1..n : i # j => p[i] # p[j]}

ArgSort(keys) ==
    {p \in IndexOrders(Len(keys)) :
        \A i, j \in 1..Len(keys) : i < j => keys[p[i]] <= keys[p[j]]}

\* Variant: the last max_elements indices of the argsort are taken.
select_subset_largest(source, F_saved, max_elements, argsort) ==
    IF Len(source) = 0 THEN <<>>
    ELSE IF Len(source) <= max_elements THEN source
    ELSE Pick(source, SubSeq(argsort, Len(source) - max_elements + 1,
                             Len(source)))

select_subset(source, F_saved, max_elements, argsort) ==
    IF Len(source) = 0 THEN <<>>
    ELSE IF Len(source) <= max_elements THEN source
    ELSE Pick(source, SubSeq(argsort, 1, max_elements))

InitSelect ==
    /\ pc = "off"
    /\ idx = 0
    /\ t = time_steps[1]
    /\ pop_cfg = population_size
    /\ saved = <<>>
    /\ res = <<>>
    /\ sampling = "none"
    /\ seed = NoSeed
    /\ n_opt = 0
    /\ n_upd = 0
    /\ last_update = NoUpdate
    /\ error = "none"
    /\ cd = NoCd
    /\ \E n \in 0..MaxSelLen :
       \E F \in [1..n -> [1..n_obj -> 0..SelObjMax]] :
       \E m \in 0..MaxSelLen :
          sel = [pc |-> "in", source |-> ArbitraryArchive(n), F_saved |-> F,
                 max_elements |-> m, argsort |-> <<>>, out |-> <<>>]

SelectSubset ==
    /\ sel.pc = "in"
    /\ \E order \in (IF Len(sel.source) > sel.max_elements
                      THEN ArgSort(RowSums(sel.F_saved))
                      ELSE {<<>>}) :
          sel' = [sel EXCEPT !.pc = "out",
                             !.argsort = order,
                             !.out = select_subset(sel.source, sel.F_saved,
                                                   sel.max_elements, order)]
    /\ UNCHANGED <<runVars, cd>>

NextSelect == SelectSubset

SpecSelect == InitSelect /\ [][NextSelect]_vars

(***************************************************************************)
(* crowding_distance(F) as a function.  A distance is np.inf or a         *)
(* fraction num/den; a fraction with den = 0 is the result of a division  *)
(* by zero.  sorted_indices is np.argsort(F[:, m]): any ordering of the   *)
(* points by non-decreasing value of objective m.                         *)
(***************************************************************************)
MaxPoints == 3
CrowdMaxVal == 5
CrowdVals == {0, 1, CrowdMaxVal}

Inf == [inf |-> TRUE, num |-> 0, den |-> 1]
Zero == [inf |-> FALSE, num |-> 0, den |-> 1]

\* d += a / b
AddQuotient(d, a, b) ==
    IF d.inf THEN d
    ELSE [inf |-> FALSE, num |-> d.num * b + a * d.den, den |-> d.den * b]

Column(F, m) == [i \in 1..Len(F) |-> F[i][m]]

\* Variant: no test of f_max - f_min == 0.
RECURSIVE InteriorLoop_unguarded(_, _, _, _, _)
InteriorLoop_unguarded(distance, F, m, sorted_indices, i) ==
    LET n_points == Len(F)
        f_min == F[sorted_indices[1]][m]
        f_max == F[sorted_indices[n_points]][m]
    IN  IF i > n_points - 1 THEN distance
        ELSE InteriorLoop_unguarded(
                [distance EXCEPT ![sorted_indices[i]] =
                    AddQuotient(@, F[sorted_indices[i + 1]][m]
                                   - F[sorted_indices[i - 1]][m],
                                f_max - f_min)],
                F, m, sorted_indices, i + 1)

\* for i in range(1, n_points - 1), from position i on (positions from 1)
RECURSIVE InteriorLoop(_, _, _, _, _)
InteriorLoop(distance, F, m, sorted_indices, i) ==
    LET n_points == Len(F)
        f_min == F[sorted_indices[1]][m]
        f_max == F[sorted_indices[n_points]][m]
    IN  IF i > n_points - 1 THEN distance
        ELSE IF f_max - f_min = 0
        THEN InteriorLoop(distance, F, m, sorted_indices, i + 1)
        ELSE InteriorLoop(
                [distance EXCEPT ![sorted_indices[i]] =
                    AddQuotient(@, F[sorted_indices[i + 1]][m]
                                   - F[sorted_indices[i - 1]][m],
                                f_max - f_min)],
                F, m, sorted_indices, i + 1)

\* for m in range(n_obj), from objective m on
RECURSIVE ObjectiveLoop(_, _, _, _)
ObjectiveLoop(distance, F, orders, m) ==
    IF m > n_obj THEN distance
    ELSE LET sorted_indices == orders[m]
             ends == [[distance EXCEPT ![sorted_indices[Len(F)]] = Inf]
                         EXCEPT ![sorted_indices[1]] = Inf]
         IN  ObjectiveLoop(InteriorLoop(ends, F, m, sorted_indices, 2),
                           F, orders, m + 1)

crowding_distance(F, orders) ==
    ObjectiveLoop([i \in 1..Len(F) |-> Zero], F, orders, 1)

InitCrowd ==
    /\ pc = "off"
    /\ idx = 0
    /\ t = time_steps[1]
    /\ pop_cfg = population_size
    /\ saved = <<>>
    /\ res = <<>>
    /\ sampling = "none"
    /\ seed = NoSeed
    /\ n_opt = 0
    /\ n_upd = 0
    /\ last_update = NoUpdate
    /\ error = "none"
    /\ sel = NoSel
    /\ \E n \in 1..MaxPoints :
       \E F \in [1..n -> [1..n_obj -> CrowdVals]] :
          cd = [pc |-> "in", F |-> F, orders |-> <<>>, distance |-> <<>>]

CrowdingDistance ==
    /\ cd.pc = "in"
    /\ \E orders \in [1..n_obj -> IndexOrders(Len(cd.F))] :
          /\ \A m \in 1..n_obj : orders[m] \in ArgSort(Column(cd.F, m))
          /\ cd' = [cd EXCEPT !.pc = "out",
                              !.orders = orders,
                              !.distance = crowding_distance(cd.F, orders)]
    /\ UNCHANGED <<runVars, sel>>

NextCrowd == CrowdingDistance

SpecCrowd == InitCrowd /\ [][NextCrowd]_vars

(***************************************************************************)
(* Properties.                                                             *)
(***************************************************************************)

\* C1: after any sequence of save_elite_solutions calls in a run the archive
\* holds at most max_save decision vectors.
C1_ArchiveWithinCap == Len(saved) <= max_save

\* An update whose combined list exceeded the capacity has been cut to it.
C1_EvictionHappened ==
    /\ pc = "next"
    /\ last_update.combined > max_save
    /\ Len(saved) = max_save

C3_OptimizeCount == pc = "done" => n_opt = num_changes + 1

\* C4: an update with len(new) <= cap_per_update and
\* len(archive) + len(new) <= global_cap leaves exactly the old archive
\* followed by all new decision vectors.
C4_UnionWhenNoEviction ==
    [][(/\ pc = "save"
        /\ pc' = "next"
        /\ Len(res) <= save_each_prob
        /\ Len(saved) + Len(res) <= max_save) => saved' = saved \o res]_vars

\* A non-empty archive has taken a result in without cutting anything.
C4_UnionHappened ==
    /\ pc = "next"
    /\ last_update.old >= 1
    /\ last_update.new >= 1
    /\ last_update.new <= save_each_prob
    /\ last_update.old + last_update.new <= max_save
    /\ Len(saved) = last_update.old + last_update.new

\* C5: a failure of the linear algebra of the transfer at a non-initial step
\* does not abort the run: the step goes on without the transferred part.
C5_FallbackOnInstability == error = "LinAlgError" => pc # "aborted"

\* C6: once the seed components are assembled, more of them than
\* population_size are truncated to it and fewer are padded up to it, and
\* neither case raises.
C6_TruncateOrPad ==
    (pc # "sample" /\ seed.random = n_random)
        => (error = "none" /\ seed.full = pop_cfg)

\* C7: select_subset returns nothing for an empty archive, the archive
\* itself when it has at most max_elements members, and otherwise exactly
\* max_elements distinct members none of whose objective sums exceeds that of
\* a member left out.
C7_SelectSubset ==
    sel.pc = "out" =>
        LET n == Len(sel.source)
            sums == RowSums(sel.F_saved)
            chosen == {i \in 1..n : \E j \in 1..Len(sel.out) :
                                        sel.out[j] = sel.source[i]}
        IN  /\ n = 0 => sel.out = <<>>
            /\ n <= sel.max_elements => sel.out = sel.source
            /\ n > sel.max_elements =>
                  /\ Len(sel.out) = sel.max_elements
                  /\ Cardinality(chosen) = sel.max_elements
                  /\ \A i \in chosen : \A j \in (1..n) \ chosen :
                        sums[i] <= sums[j]

\* A proper subset was selected and a member left out has a larger sum than
\* one returned.
C7_ReductionHappened ==
    /\ sel.pc = "out"
    /\ sel.max_elements >= 2
    /\ Len(sel.source) > sel.max_elements
    /\ Len(sel.out) = sel.max_elements
    /\ \E i, j \in 1..Len(sel.source) :
          /\ sel.source[i] = sel.out[1]
          /\ \A k \in 1..Len(sel.out) : sel.out[k] # sel.source[j]
          /\ RowSums(sel.F_saved)[i] < RowSums(sel.F_saved)[j]

Pos(order, p) == CHOOSE i \in 1..Len(order) : order[i] = p

\* Sum over objectives m..n_obj with non-zero range of
\* (next value - previous value) / (max - min) for point p.
RECURSIVE ExpectedDistance(_, _, _, _)
ExpectedDistance(F, orders, p, m) ==
    IF m > n_obj THEN Zero
    ELSE LET o == orders[m]
             range == F[o[Len(F)]][m] - F[o[1]][m]
             rest == ExpectedDistance(F, orders, p, m + 1)
         IN  IF range = 0 THEN rest
             ELSE AddQuotient(rest, F[o[Pos(o, p) + 1]][m]
                                    - F[o[Pos(o, p) - 1]][m], range)

\* [0, 1, 5] in the first objective, [5, 1, 0] in the second.
ExampleFront == <<<<0, CrowdMaxVal>>, <<1, 1>>, <<CrowdMaxVal, 0>>>>

\* C9: for a front of at least 2 points the first and last point of every
\* objective's sort order are at infinite distance; a point interior in
\* every objective is at the finite sum, over the objectives of non-zero
\* range, of (next - previous) / (max - min); nothing is divided by zero; in
\* the example front the ends are infinite and the middle finite and
\* positive.
C9_CrowdingDistance ==
    (cd.pc = "out" /\ Len(cd.F) >= 2) =>
        LET n == Len(cd.F)
            d == cd.distance
            interior == {p \in 1..n : \A m \in 1..n_obj :
                            /\ cd.orders[m][1] # p
                            /\ cd.orders[m][n] # p}
        IN  /\ \A m \in 1..n_obj :
                  d[cd.orders[m][1]].inf /\ d[cd.orders[m][n]].inf
            /\ \A p \in 1..n : ~d[p].inf => d[p].den # 0
            /\ \A p \in interior :
                  LET e == ExpectedDistance(cd.F, cd.orders, p, 1)
                  IN  /\ ~d[p].inf
                      /\ d[p].num * e.den = e.num * d[p].den
            /\ cd.F = ExampleFront =>
                  /\ d[1].inf
                  /\ d[3].inf
                  /\ ~d[2].inf
                  /\ d[2].num * d[2].den > 0

\* The example front has been ranked: the middle point is at distance 2.
C9_ExampleRanked ==
    /\ cd.pc = "out"
    /\ cd.F = ExampleFront
    /\ ~cd.distance[2].inf
    /\ cd.distance[2].num = 2 * cd.distance[2].den

\* C10: step 0 samples by LHS and never from a built seed; every step makes
\* one archive update, after its own optimization and before the next step
\* begins; the seed of step k > 0 is built from the archive left by the
\* updates of steps 0..k-1, which is not empty.
C10_StepOrder ==
    /\ idx = 0 => sampling \in {"none", "LHS"}
    /\ pc \in {"optimize", "save", "next", "done"} =>
          sampling = (IF idx = 0 THEN "LHS" ELSE "array")
    /\ pc \in {"sample", "optimize"} => (n_opt = idx /\ n_upd = idx)
    /\ pc = "save" => (n_opt = idx + 1 /\ n_upd = idx)
    /\ pc \in {"next", "done"} => (n_opt = idx + 1 /\ n_upd = idx + 1)
    /\ (pc \in {"sample", "optimize"} /\ idx > 0) =>
          /\ saved # <<>>
          /\ last_update.step = idx - 1
          /\ \A i \in 1..Len(saved) : saved[i][1] < idx
    /\ (pc = "optimize" /\ idx > 0) =>
          seed.transferred = Min(n_transfer, Len(saved))

\* A seed has been built at the third step from the archive of two updates.
C10_SeedAfterUpdates ==
    /\ pc = "optimize"
    /\ idx = 2
    /\ sampling = "array"
    /\ n_upd = 2
    /\ saved # <<>>

====
